---- MODULE Spec2Model ----
(***************************************************************************)
(* Real-time MIDI guitar: the YIN pitch estimator (js/audioProcessor.js),  *)
(* the note mapper and note tracker (js/midiConverter.js), the wiring of   *)
(* the two by the application (js/app.js, js/ui.js) and the note functions *)
(* of js/utils.js.  Spec is the application; TrackerSpec, YinSpec and      *)
(* MapperSpec drive the tracker, the estimator and the note functions on   *)
(* their own.                                                              *)
(*                                                                         *)
(* Numbers.  Samples are small integers.  The values of the difference     *)
(* buffer are exact rationals [n, d] extended with the IEEE values the     *)
(* JavaScript arithmetic produces: d = 0 and n = 0 is NaN, d = 0 and       *)
(* n = 1 / -1 is +Infinity / -Infinity.  Frequencies are fixed-point       *)
(* integers in 1/100 Hz.  Thresholds and probabilities are rationals, NaN   *)
(* being what parseFloat returns for a value that is no number.            *)
(* The analysis frame is scaled down: BUFFER_SIZE is 2 * HalfFrame.        *)
(***************************************************************************)
EXTENDS Integers, Sequences, FiniteSets, TLC

\* ------------------------------------------------------------ bounds
\* Half of the (scaled-down) frame length: the length of the yinBuffer.
HalfFrame == 7
\* Longest detectedPitches array handed to handleDetectedPitches directly.
MaxPitches == 2
\* Longest period of the pulse trains fed to processAudio.
MaxPeriod == 5
\* getUserMedia requests that may be pending at once.
MaxPending == 1
\* POST /api/register requests the server handles.
MaxRequests == 3

\* ------------------------------------------------- program constants
BUFFER_SIZE == 2 * HalfFrame
SAMPLE_RATE == 44100
YIN_THRESHOLD == [n |-> 15, d |-> 100]
NOTE_ON == 144
NOTE_OFF == 128
DefaultVelocity == 100

\* --------------------------------------------- IEEE-style rationals
Abs(x) == IF x < 0 THEN -x ELSE x

Sign(x) == IF x < 0 THEN -1 ELSE IF x = 0 THEN 0 ELSE 1

RECURSIVE Gcd(_, _)
Gcd(a, b) == IF b = 0 THEN a ELSE Gcd(b, a % b)

\* n/d in lowest terms with d >= 0; d = 0 keeps only the sign of n.
Rat(n, d) ==
    IF d = 0 THEN [n |-> Sign(n), d |-> 0]
    ELSE LET g == Gcd(Abs(n), Abs(d))
             s == Sign(d)
         IN  [n |-> (s * n) \div g, d |-> (s * d) \div g]

NaN == [n |-> 0, d |-> 0]

IsNaN(a) == a.d = 0 /\ a.n = 0

IsInf(a) == a.d = 0 /\ a.n # 0

RNeg(a) == [n |-> -a.n, d |-> a.d]

RAdd(a, b) ==
    IF IsNaN(a) \/ IsNaN(b) THEN NaN
    ELSE IF IsInf(a) /\ IsInf(b) THEN (IF a.n = b.n THEN a ELSE NaN)
    ELSE IF IsInf(a) THEN a
    ELSE IF IsInf(b) THEN b
    ELSE Rat(a.n * b.d + b.n * a.d, a.d * b.d)

RSub(a, b) == RAdd(a, RNeg(b))

RMul(a, b) == Rat(a.n * b.n, a.d * b.d)

RDiv(a, b) == RMul(a, Rat(b.d, b.n))

\* a < b and a >= b as JavaScript compares numbers: false when either is NaN.
RLt(a, b) ==
    IF IsNaN(a) \/ IsNaN(b) THEN FALSE
    ELSE IF IsInf(a) /\ IsInf(b) THEN a.n < b.n
    ELSE a.n * b.d < b.n * a.d

RGe(a, b) == ~IsNaN(a) /\ ~IsNaN(b) /\ ~RLt(a, b)

\* floor(a * b / c) for a, b >= 0 and c > 0 without forming a * b.
MulDiv(a, b, c) == (a \div c) * b + ((a % c) * b) \div c

\* ------------------------------------------------ YIN (audioProcessor)
YinLength == BUFFER_SIZE \div 2

RECURSIVE Elements(_, _, _)
Elements(f, i, n) == IF i >= n THEN <<>> ELSE <<f[i]>> \o Elements(f, i + 1, n)

\* A typed array of length n with the elements of f, each computed once.
TypedArray(f, n) ==
    LET elements == Elements(f, 0, n)
    IN  [i \in 0 .. (n - 1) |-> elements[i + 1]]

Lags == 0 .. (YinLength - 1)

RECURSIVE SumSquares(_, _, _)
\* The inner loop of difference: sum over i < YinLength of (b[i]-b[i+tau])^2.
SumSquares(buffer, tau, i) ==
    IF i >= YinLength THEN 0
    ELSE LET delta == buffer[i] - buffer[i + tau]
         IN  delta * delta + SumSquares(buffer, tau, i + 1)

\* difference without the loop that zeroes the yinBuffer.
difference_NoZero(yin, buffer) ==
    TypedArray([tau \in DOMAIN yin |->
                   IF tau = 0 THEN yin[tau]
                   ELSE RAdd(yin[tau], Rat(SumSquares(buffer, tau, 0), 1))],
               YinLength)


\* Step 1: zero the whole yinBuffer, then accumulate d(tau) for tau >= 1.
difference(yin, buffer) ==
    LET zeroed == [tau \in DOMAIN yin |-> Rat(0, 1)]
    IN  TypedArray([tau \in DOMAIN yin |->
                       IF tau = 0 THEN zeroed[tau]
                       ELSE RAdd(zeroed[tau], Rat(SumSquares(buffer, tau, 0), 1))],
                   YinLength)

RECURSIVE RunningSum(_, _)
\* runningSum after the loop body for lag tau: d(1) + ... + d(tau).
RunningSum(yin, tau) ==
    IF tau = 0 THEN Rat(0, 1) ELSE RAdd(RunningSum(yin, tau - 1), yin[tau])

\* cumulativeMeanNormalizedDifference that yields 0 where the running sum is 0.
cumulativeMeanNormalizedDifference_ZeroSum(yin) ==
    TypedArray([tau \in DOMAIN yin |->
                   IF tau = 0 THEN Rat(1, 1)
                   ELSE IF RunningSum(yin, tau).n = 0 THEN Rat(0, 1)
                   ELSE RMul(yin[tau], RDiv(Rat(tau, 1), RunningSum(yin, tau)))],
               YinLength)


\* Step 2: yinBuffer[0] = 1; yinBuffer[tau] *= tau / runningSum.
cumulativeMeanNormalizedDifference(yin) ==
    TypedArray([tau \in DOMAIN yin |->
                   IF tau = 0 THEN Rat(1, 1)
                   ELSE RMul(yin[tau], RDiv(Rat(tau, 1), RunningSum(yin, tau)))],
               YinLength)

RECURSIVE Descend_NonStrict(_, _)
\* The inner while loop with <= in the place of <.
Descend_NonStrict(yin, tau) ==
    IF tau + 1 < YinLength
       /\ (RLt(yin[tau + 1], yin[tau]) \/ yin[tau + 1] = yin[tau])
    THEN Descend_NonStrict(yin, tau + 1)
    ELSE tau


RECURSIVE Descend(_, _)
\* The inner while loop of absoluteThreshold.
Descend(yin, tau) ==
    IF tau + 1 < YinLength /\ RLt(yin[tau + 1], yin[tau])
    THEN Descend(yin, tau + 1)
    ELSE tau

RECURSIVE ThresholdFrom(_, _)
ThresholdFrom(yin, tau) ==
    IF tau >= YinLength THEN -1
    ELSE IF RLt(yin[tau], YIN_THRESHOLD) THEN Descend(yin, tau)
    ELSE ThresholdFrom(yin, tau + 1)

\* Step 3: the first lag below the threshold, walked down to its minimum.
absoluteThreshold(yin) == ThresholdFrom(yin, 1)

\* A read of yinBuffer[i]: undefined outside the buffer, NaN in arithmetic.
YinAt(yin, i) == IF i \in DOMAIN yin THEN yin[i] ELSE NaN

\* Step 4: tau + (y3 - y1) / (2 * (2 * y2 - y1 - y3)).
parabolicInterpolation(yin, tau) ==
    LET y1 == YinAt(yin, tau - 1)
        y2 == YinAt(yin, tau)
        y3 == YinAt(yin, tau + 1)
        denom == RMul(Rat(2, 1), RSub(RSub(RMul(Rat(2, 1), y2), y1), y3))
    IN  RAdd(Rat(tau, 1), RDiv(RSub(y3, y1), denom))

\* The yinBuffer after steps 1 and 2.
YinOf(yin, buffer) == cumulativeMeanNormalizedDifference(difference(yin, buffer))

\* detectPitch: null when no lag is found, else SAMPLE_RATE / betterTau.
\* The result is [null, value]; value is the pitch as an extended rational.
detectPitch(yin, buffer) ==
    LET y == YinOf(yin, buffer)
        tau == absoluteThreshold(y)
    IN  IF tau = -1 THEN [null |-> TRUE, value |-> NaN]
        ELSE [null |-> FALSE,
              value |-> RDiv(Rat(SAMPLE_RATE, 1), parabolicInterpolation(y, tau))]

\* A test of the pitch against null alone.
Truthy_NotNull(pitch) == ~pitch.null

\* JavaScript truthiness of detectPitch's result: null, NaN and 0 are falsy.
Truthy(pitch) == ~pitch.null /\ ~IsNaN(pitch.value) /\ pitch.value.n # 0

\* A finite positive pitch in 1/100 Hz (rounded down).
CentiHz(value) == MulDiv(value.n, 100, value.d)

\* -------------------------------------------- note mapper (midiConverter)
\* Lower edges, in 1/100 Hz, of the notes 132..143: a frequency f maps to note
\* n or above exactly when f >= 440 * 2^((n - 69.5) / 12).
OctaveLow ==
    <<1626737, 1723468, 1825951, 1934527, 2049560, 2171433,
      2300553, 2437351, 2582284, 2735834, 2898516, 3070870>>

OctaveBase == 132

RECURSIVE NoteFrom(_, _)
NoteFrom(f, base) ==
    IF f < OctaveLow[1] THEN NoteFrom(2 * f, base - 12)
    ELSE IF f >= 2 * OctaveLow[1] THEN NoteFrom(f \div 2, base + 12)
    ELSE base + Cardinality({j \in 2 .. 12 : f >= OctaveLow[j]})

\* The frequencies, in 1/100 Hz, of the notes 132..143: 440 * 2^((n - 69) / 12).
OctaveCentre ==
    <<1674404, 1773969, 1879455, 1991213, 2109616, 2235061,
      2367964, 2508771, 2657950, 2816000, 2983448, 3160853>>

RECURSIVE NoteFloorFrom(_, _)
NoteFloorFrom(f, base) ==
    IF f < OctaveCentre[1] THEN NoteFloorFrom(2 * f, base - 12)
    ELSE IF f >= 2 * OctaveCentre[1] THEN NoteFloorFrom(f \div 2, base + 12)
    ELSE base + Cardinality({j \in 2 .. 12 : f >= OctaveCentre[j]})

\* frequencyToMidiNote with Math.floor in the place of Math.round.
frequencyToMidiNote_Floor(frequency) == NoteFloorFrom(CentiHz(frequency), OctaveBase)


\* A finite number greater than 0.
Positive(x) == x.d > 0 /\ x.n > 0

\* Math.round of NaN or of an infinity, which is what Math.log2 leaves of a
\* frequency that is NaN, negative, 0 or infinite: a number that is no note.
NaNNote == -1000

\* Math.round(69 + 12 * Math.log2(frequency / 440)).
frequencyToMidiNote(frequency) ==
    IF Positive(frequency) THEN NoteFrom(CentiHz(frequency), OctaveBase) ELSE NaNNote

\* ------------------------------------------------------ utils (utils.js)
\* The copy of frequencyToMidiNote that utils.js exports.
utilsFrequencyToMidiNote(frequency) ==
    IF Positive(frequency) THEN NoteFrom(CentiHz(frequency), OctaveBase) ELSE NaNNote

\* 440 * Math.pow(2, semitones / 12): the table entry of the pitch class,
\* doubled or halved once per octave.
EqualTempered(semitones) ==
    LET n == semitones + 69
        k == (n - OctaveBase) % 12
        octave == (n - OctaveBase - k) \div 12
    IN  IF octave >= 0
        THEN Rat(OctaveCentre[k + 1] * 2 ^ octave, 100)
        ELSE Rat(OctaveCentre[k + 1], 100 * 2 ^ (0 - octave))

\* midiNoteToFrequency that takes note 60 for the note of 440 Hz.
midiNoteToFrequency_Ref60(midiNote) == EqualTempered(midiNote - 60)

\* 440 * Math.pow(2, (midiNote - 69) / 12).
midiNoteToFrequency(midiNote) == EqualTempered(midiNote - 69)


\* ------------------------------------------------------------- state
VARIABLES
    midiPc,            \* MIDIConverter.initialize: "requesting" or "done"
    midiAccess,        \* MIDIConverter.midiAccess: "null" or "granted"
    midiOutput,        \* MIDIConverter.midiOutput: "null" or a device name
    activeNotes,       \* MIDIConverter.activeNotes, a Set in insertion order
    onsetThreshold,    \* App.onsetThreshold
    noteThreshold,     \* App.noteThreshold
    onStart,           \* UI.onStart is set
    onThresholdChange, \* UI.onThresholdChange is set
    audioContext,      \* AudioProcessor.audioContext: its sampleRate, 0 for null
    pendingMedia,      \* getUserMedia requests of App.start not yet settled
    onPitchDetected,   \* AudioProcessor.onPitchDetected is set
    onaudioprocess,    \* a ScriptProcessorNode delivers blocks to processAudio
    audioBuffer,       \* AudioProcessor.audioBuffer
    yinBuffer,         \* AudioProcessor.yinBuffer
    sinkOn,            \* the sink: notes whose last delivered message is Note On
    sent,              \* the messages the sink accepted in the last operation
    tracks,            \* AudioEngine.tracks: id -> track, NoTrack when not loaded
    users,             \* the users collection: the usernames of its records
    requests,          \* the POST /api/register requests: where each one is
    last               \* the last operation: its name, inputs and outcome

vars ==
    <<midiPc, midiAccess, midiOutput, activeNotes, onsetThreshold, noteThreshold,
      onStart, onThresholdChange, audioContext, pendingMedia, onPitchDetected,
      onaudioprocess, audioBuffer, yinBuffer, sinkOn, sent, tracks, users, requests,
      last>>

converterVars == <<midiPc, midiAccess, midiOutput>>

appVars == <<onsetThreshold, noteThreshold, onStart, onThresholdChange>>

audioVars ==
    <<audioContext, pendingMedia, onPitchDetected, onaudioprocess, audioBuffer,
      yinBuffer>>

trackerVars == <<activeNotes, sinkOn>>

\* The state of the mixer engine and of the server.
otherVars == <<tracks, users, requests>>

\* The state of the page of the pitch-to-MIDI application.
pageVars == <<converterVars, appVars, audioVars, trackerVars, sent>>

NoPitch == [null |-> TRUE, value |-> NaN]

NoCall == [detectedPitches |-> <<>>, noteThreshold |-> NaN]

\* The record of an operation that is not a frame and not an update call:
\* threw, an exception left the operation; rejected, the message the sink
\* refused; pitch, what detectPitch returned; call, the arguments of the
\* handleDetectedPitches call; repeat, the call before had the same arguments;
\* blockLen, the length of the block handed to processAudio; tau, what
\* absoluteThreshold returned; arg and result, the argument and the value
\* returned when a function is called on its own.
Op(name) ==
    [op |-> name, threw |-> FALSE, rejected |-> <<>>, pitch |-> NoPitch,
     call |-> NoCall, repeat |-> FALSE, blockLen |-> 0, tau |-> -1,
     arg |-> <<>>, result |-> <<>>]

\* ---------------------------------------------- tracker (midiConverter)
SeqToSet(s) == {s[i] : i \in DOMAIN s}

\* Set.prototype.delete on the insertion-ordered Set.
SeqDelete(s, x) == SelectSeq(s, LAMBDA y : y # x)

\* MIDIOutput.send of the Web MIDI API: a data byte outside 0..127 is no valid
\* MIDI message and raises TypeError; a valid message reaches the sink.
ValidMessage(data) == data[2] \in 0 .. 127 /\ data[3] \in 0 .. 127

\* The conversion of a number to an octet of the message: modulo 256, and 0
\* for a number that is NaN or infinite.
ToOctet(x) == IF x = NaNNote THEN 0 ELSE x % 256

send(cs, data) ==
    LET octets == [i \in DOMAIN data |-> ToOctet(data[i])]
    IN  IF ValidMessage(octets)
        THEN [cs EXCEPT !.sent = Append(@, octets),
                        !.sinkOn = IF octets[1] = NOTE_ON
                                   THEN @ \cup {octets[2]}
                                   ELSE @ \ {octets[2]}]
        ELSE [cs EXCEPT !.threw = TRUE, !.rejected = data]

\* sendNoteOn without the test that the note is not active yet.
sendNoteOn_NoCheck(cs, midiNote, velocity) ==
    IF midiOutput = "null" THEN cs
    ELSE LET s == send(cs, <<NOTE_ON, midiNote, velocity>>)
         IN  IF s.threw THEN s
             ELSE [s EXCEPT !.activeNotes = Append(@, midiNote)]

\* sendNoteOn that sends the message and forgets activeNotes.add.
sendNoteOn_NoAdd(cs, midiNote, velocity) ==
    IF midiOutput = "null" THEN cs
    ELSE IF midiNote \notin SeqToSet(cs.activeNotes)
    THEN send(cs, <<NOTE_ON, midiNote, velocity>>)
    ELSE cs

\* sendNoteOn that adds the note to activeNotes before it sends the message.
sendNoteOn_AddFirst(cs, midiNote, velocity) ==
    IF midiOutput = "null" THEN cs
    ELSE IF midiNote \notin SeqToSet(cs.activeNotes)
    THEN send([cs EXCEPT !.activeNotes = Append(@, midiNote)],
              <<NOTE_ON, midiNote, velocity>>)
    ELSE cs


\* cs is the state one call works on: [activeNotes, sinkOn, sent, threw, rejected].
sendNoteOn(cs, midiNote, velocity) ==
    IF midiOutput = "null" THEN cs
    ELSE IF midiNote \notin SeqToSet(cs.activeNotes)
    THEN LET s == send(cs, <<NOTE_ON, midiNote, velocity>>)
         IN  IF s.threw THEN s
             ELSE [s EXCEPT !.activeNotes = Append(@, midiNote)]
    ELSE cs

\* sendNoteOff that sends the message and forgets activeNotes.delete.
sendNoteOff_NoDelete(cs, midiNote) ==
    IF midiOutput = "null" THEN cs
    ELSE IF midiNote \in SeqToSet(cs.activeNotes)
    THEN send(cs, <<NOTE_OFF, midiNote, 0>>)
    ELSE cs

sendNoteOff(cs, midiNote) ==
    IF midiOutput = "null" THEN cs
    ELSE IF midiNote \in SeqToSet(cs.activeNotes)
    THEN LET s == send(cs, <<NOTE_OFF, midiNote, 0>>)
         IN  IF s.threw THEN s
             ELSE [s EXCEPT !.activeNotes = SeqDelete(@, midiNote)]
    ELSE cs

\* The candidates that pass the confidence test, as notes, in array order.
DetectedNotes(detectedPitches, threshold) ==
    LET accepted == SelectSeq(detectedPitches,
                              LAMBDA p : RGe(p.probability, threshold))
    IN  [i \in DOMAIN accepted |-> frequencyToMidiNote(accepted[i].freq)]

RECURSIVE NoteOnLoop(_, _, _)
\* detectedPitches.forEach: sendNoteOn for every accepted candidate.
NoteOnLoop(cs, notes, i) ==
    IF i > Len(notes) \/ cs.threw THEN cs
    ELSE NoteOnLoop(sendNoteOn(cs, notes[i], DefaultVelocity), notes, i + 1)

RECURSIVE NoteOffLoop(_, _, _, _)
\* activeNotes.forEach: sendNoteOff for every active note not detected.
NoteOffLoop(cs, actives, detectedNotes, i) ==
    IF i > Len(actives) \/ cs.threw THEN cs
    ELSE IF actives[i] \notin detectedNotes
    THEN NoteOffLoop(sendNoteOff(cs, actives[i]), actives, detectedNotes, i + 1)
    ELSE NoteOffLoop(cs, actives, detectedNotes, i + 1)

\* handleDetectedPitches with the loop that turns notes off before the loop
\* that turns notes on.
handleDetectedPitches_OffFirst(cs, detectedPitches, threshold) ==
    LET notes == DetectedNotes(detectedPitches, threshold)
        afterOff == NoteOffLoop(cs, cs.activeNotes, SeqToSet(notes), 1)
    IN  NoteOnLoop(afterOff, notes, 1)


\* handleDetectedPitches without the loop that turns undetected notes off.
handleDetectedPitches_NoOff(cs, detectedPitches, threshold) ==
    NoteOnLoop(cs, DetectedNotes(detectedPitches, threshold), 1)

handleDetectedPitches(cs, detectedPitches, threshold) ==
    LET notes == DetectedNotes(detectedPitches, threshold)
        afterOn == NoteOnLoop(cs, notes, 1)
    IN  NoteOffLoop(afterOn, afterOn.activeNotes, SeqToSet(notes), 1)

\* The state a call starts from: nothing sent yet, nothing thrown.
CallState == [activeNotes |-> activeNotes, sinkOn |-> sinkOn,
              sent |-> <<>>, threw |-> FALSE, rejected |-> <<>>]

\* ------------------------------------------------------------ inputs
\* A block of len samples: silence (period 0) or a pulse train of the period.
Wave(period, len) ==
    TypedArray([i \in 0 .. (len - 1) |->
                   IF period = 0 THEN 0 ELSE IF i % period = 0 THEN 1 ELSE 0],
               len)

\* Silence, a period that maps above note 127, the longer periods, and the
\* period that is the last lag of the yinBuffer.
Periods == {0, 2, YinLength - 1} \cup (4 .. MaxPeriod)

\* The sampleRate of a new AudioContext: that of the audio hardware, the same
\* for every AudioContext the page creates.
SampleRates == {44100, 48000}

\* Block lengths handed to processAudio: one short, a frame, one too many.
BlockLengths == {BUFFER_SIZE - 1, BUFFER_SIZE, BUFFER_SIZE + 1}

\* The periods of the blocks that are not of the frame's length.
OddBlockPeriods == {2, 4}

BlockLength(inputBuffer) == Cardinality(DOMAIN inputBuffer)

\* What requestMIDIAccess settles with: a rejection, or the list of outputs.
MidiOutcomes == {<<"rejected">>, <<>>, <<"out1">>, <<"out1", "out2">>}

\* The value attribute of a threshold slider, and parseFloat of it.
SliderValues == {"0.5", "1.5", ""}

\* The values the onset slider is moved to (onsetThreshold is never read).
OnsetSliderValues == {"0.5"}

parseFloat(value) ==
    CASE value = "0.5" -> Rat(1, 2)
      [] value = "1.5" -> Rat(3, 2)
      [] OTHER -> NaN

\* Candidates handed to handleDetectedPitches directly: C4, E4 and G4, a weak
\* C4, and 23.2 kHz, which maps to note 138.
TestPitches ==
    { [freq |-> Rat(26163, 100), probability |-> Rat(1, 1)],
      [freq |-> Rat(32963, 100), probability |-> Rat(1, 1)],
      [freq |-> Rat(39200, 100), probability |-> Rat(1, 1)],
      [freq |-> Rat(26163, 100), probability |-> Rat(1, 2)],
      [freq |-> Rat(23200, 1), probability |-> Rat(1, 1)] }

RECURSIVE SeqsUpTo(_, _)
SeqsUpTo(S, n) ==
    IF n = 0 THEN {<<>>}
    ELSE LET shorter == SeqsUpTo(S, n - 1)
         IN  shorter \cup {Append(q, x) : q \in shorter, x \in S}

TestThresholds == {Rat(1, 2), Rat(4, 5)}

\* The ids of the files loaded into the mixer and the volumes of its sliders.
TrackIds == {"t1", "t2"}

Volumes == {0, 50, 100}

\* The entry of an id for which this.tracks.get(id) is undefined.
NoTrack == [loaded |-> FALSE, volume |-> 0, isMuted |-> FALSE]

\* The requests that reach POST /api/register and the usernames they carry.
RequestIds == 1 .. MaxRequests

Usernames == {"alice", "bob"}

\* A request that has not arrived: pc is the await its handler stands at,
\* user whether findOne returned a document, and status the HTTP status it
\* answered, 0 while it has not.
NoRequest == [pc |-> "none", username |-> "", user |-> FALSE, status |-> 0]

\* -------------------------------------------------------------- Init
\* The state once the page's script has run: both objects constructed and
\* App.initialize suspended at requestMIDIAccess, or, in a browser without
\* Web MIDI, already finished with its callbacks registered.
Constructed ==
    /\ midiAccess = "null"
    /\ midiOutput = "null"
    /\ activeNotes = <<>>
    /\ onsetThreshold = Rat(2, 100)
    /\ noteThreshold = Rat(8, 10)
    /\ audioContext = 0
    /\ pendingMedia = 0
    /\ onPitchDetected = FALSE
    /\ onaudioprocess = FALSE
    /\ audioBuffer = [i \in 0 .. (BUFFER_SIZE - 1) |-> 0]
    /\ yinBuffer = [tau \in Lags |-> Rat(0, 1)]
    /\ sinkOn = {}
    /\ sent = <<>>
    /\ tracks = [id \in TrackIds |-> NoTrack]
    /\ users = <<>>
    /\ requests = [r \in RequestIds |-> NoRequest]
    /\ last = Op("constructor")

Init ==
    /\ Constructed
    /\ \/ midiPc = "requesting" /\ onStart = FALSE /\ onThresholdChange = FALSE
       \/ midiPc = "done" /\ onStart = TRUE /\ onThresholdChange = TRUE

\* ----------------------------------------------------------- actions
\* MIDIConverter.initialize after the await, with setupMIDIOutput.
ConverterSettled(outcome) ==
    /\ midiPc = "requesting"
    /\ midiPc' = "done"
    /\ IF outcome = <<"rejected">>
       THEN UNCHANGED <<midiAccess, midiOutput>>
       ELSE /\ midiAccess' = "granted"
            /\ midiOutput' = IF Len(outcome) > 0 THEN outcome[1] ELSE "null"

\* App.initialize after the await: the UI callbacks are registered.
MidiAccessSettled(outcome) ==
    /\ ConverterSettled(outcome)
    /\ onStart' = TRUE
    /\ onThresholdChange' = TRUE
    /\ sent' = <<>>
    /\ last' = Op("initialize")
    /\ UNCHANGED <<otherVars, onsetThreshold, noteThreshold, audioVars, trackerVars>>

\* UI.updateOnsetThreshold with App.updateThreshold.
UpdateOnsetThreshold(value) ==
    /\ onsetThreshold' = IF onThresholdChange THEN parseFloat(value) ELSE onsetThreshold
    /\ sent' = <<>>
    /\ last' = Op("updateOnsetThreshold")
    /\ UNCHANGED <<otherVars, converterVars, noteThreshold, onStart, onThresholdChange,
                   audioVars, trackerVars>>

\* updateNoteThreshold that also empties the tracker's set.
UpdateNoteThreshold_Reset(value) ==
    /\ noteThreshold' = IF onThresholdChange THEN parseFloat(value) ELSE noteThreshold
    /\ activeNotes' = <<>>
    /\ sent' = <<>>
    /\ last' = Op("updateNoteThreshold")
    /\ UNCHANGED <<otherVars, converterVars, onsetThreshold, onStart, onThresholdChange,
                   audioVars, sinkOn>>

\* UI.updateNoteThreshold with App.updateThreshold.
UpdateNoteThreshold(value) ==
    /\ noteThreshold' = IF onThresholdChange THEN parseFloat(value) ELSE noteThreshold
    /\ sent' = <<>>
    /\ last' = Op("updateNoteThreshold")
    /\ UNCHANGED <<otherVars, converterVars, onsetThreshold, onStart, onThresholdChange,
                   audioVars, trackerVars>>

\* A Start click that starts the audio processor whether or not the start
\* callback is registered.
StartClick_NoCallbackTest ==
    /\ pendingMedia < MaxPending
    /\ onPitchDetected' = TRUE
    /\ IF audioContext = 0
       THEN \E sampleRate \in SampleRates : audioContext' = sampleRate
       ELSE audioContext' = audioContext
    /\ pendingMedia' = pendingMedia + 1
    /\ sent' = <<>>
    /\ last' = Op("start")
    /\ UNCHANGED <<otherVars, converterVars, appVars, onaudioprocess, audioBuffer,
                   yinBuffer, trackerVars>>


\* UI.handleStartButtonClick, App.start and AudioProcessor.initialize up to
\* the await of getUserMedia.
StartClick ==
    /\ pendingMedia < MaxPending
    /\ onPitchDetected' = (onPitchDetected \/ onStart)
    /\ IF onStart /\ audioContext = 0
       THEN \E sampleRate \in SampleRates : audioContext' = sampleRate
       ELSE audioContext' = audioContext
    /\ pendingMedia' = IF onStart THEN pendingMedia + 1 ELSE pendingMedia
    /\ sent' = <<>>
    /\ last' = Op("start")
    /\ UNCHANGED <<otherVars, converterVars, appVars, onaudioprocess, audioBuffer, yinBuffer,
                   trackerVars>>

\* AudioProcessor.initialize after the await: with the microphone granted the
\* ScriptProcessorNode is created and its handler installed.
UserMediaSettled(granted) ==
    /\ pendingMedia > 0
    /\ pendingMedia' = pendingMedia - 1
    /\ onaudioprocess' = (onaudioprocess \/ granted)
    /\ sent' = <<>>
    /\ last' = Op("getUserMedia")
    /\ UNCHANGED <<otherVars, converterVars, appVars, audioContext, onPitchDetected, audioBuffer,
                   yinBuffer, trackerVars>>

\* App.handlePitchDetected: one candidate with probability 1.0.
PitchCandidates(pitch) == <<[freq |-> pitch.value, probability |-> Rat(1, 1)]>>

\* The handleDetectedPitches call that a frame with this pitch leads to.
PitchCall(pitch) ==
    IF Truthy(pitch) /\ onPitchDetected
    THEN [detectedPitches |-> PitchCandidates(pitch), noteThreshold |-> noteThreshold]
    ELSE NoCall

\* Float32Array.prototype.set: the block overwrites the front of the buffer.
BufferSet(buffer, inputBuffer) ==
    TypedArray([i \in DOMAIN buffer |->
                   IF i \in DOMAIN inputBuffer THEN inputBuffer[i] ELSE buffer[i]],
               BUFFER_SIZE)

\* The onaudioprocess handler: AudioProcessor.processAudio, and through the
\* pitch callback App.handlePitchDetected and handleDetectedPitches.
ProcessAudio(inputBuffer) ==
    /\ onaudioprocess
    /\ IF BlockLength(inputBuffer) > BUFFER_SIZE
       THEN \* set raises RangeError: the source does not fit
            /\ sent' = <<>>
            /\ last' = [Op("processAudio") EXCEPT
                           !.threw = TRUE, !.blockLen = BlockLength(inputBuffer)]
            /\ UNCHANGED <<audioBuffer, yinBuffer, trackerVars>>
       ELSE \E buffer \in {BufferSet(audioBuffer, inputBuffer)} :
            \E pitch \in {detectPitch(yinBuffer, buffer)} :
            \E yin \in {YinOf(yinBuffer, buffer)} :
            \E cs \in {IF Truthy(pitch) /\ onPitchDetected
                      THEN handleDetectedPitches(CallState, PitchCandidates(pitch),
                                                 noteThreshold)
                      ELSE CallState} :
                /\ audioBuffer' = buffer
                /\ yinBuffer' = yin
                /\ activeNotes' = cs.activeNotes
                /\ sinkOn' = cs.sinkOn
                /\ sent' = cs.sent
                /\ last' = [Op("processAudio") EXCEPT
                               !.threw = cs.threw,
                               !.rejected = cs.rejected,
                               !.pitch = pitch,
                               !.call = PitchCall(pitch),
                               !.repeat = (PitchCall(pitch) # NoCall
                                           /\ PitchCall(pitch) = last.call),
                               !.blockLen = BlockLength(inputBuffer),
                               !.tau = absoluteThreshold(yin)]
    /\ UNCHANGED <<otherVars, converterVars, appVars, audioContext, pendingMedia, onPitchDetected,
                   onaudioprocess>>

Next ==
    \/ \E outcome \in MidiOutcomes : MidiAccessSettled(outcome)
    \/ \E value \in OnsetSliderValues : UpdateOnsetThreshold(value)
    \/ \E value \in SliderValues : UpdateNoteThreshold(value)
    \/ StartClick
    \/ \E granted \in BOOLEAN : UserMediaSettled(granted)
    \/ \E period \in Periods : ProcessAudio(Wave(period, BUFFER_SIZE))
    \/ \E period \in OddBlockPeriods, len \in BlockLengths \ {BUFFER_SIZE} :
          ProcessAudio(Wave(period, len))

Spec == Init /\ [][Next]_vars

\* ------------------------------------------- the tracker on its own
\* MIDIConverter driven through its interface: initialize, and update calls
\* (handleDetectedPitches) with any array of candidates.
TrackerInit ==
    /\ Constructed
    /\ midiPc = "requesting"
    /\ onStart = FALSE
    /\ onThresholdChange = FALSE

TrackerInitialize(outcome) ==
    /\ ConverterSettled(outcome)
    /\ sent' = <<>>
    /\ last' = Op("initialize")
    /\ UNCHANGED <<otherVars, appVars, audioVars, trackerVars>>

Update(detectedPitches, threshold) ==
    \E cs \in {handleDetectedPitches(CallState, detectedPitches, threshold)} :
        /\ activeNotes' = cs.activeNotes
        /\ sinkOn' = cs.sinkOn
        /\ sent' = cs.sent
        /\ last' = [Op("handleDetectedPitches") EXCEPT
                       !.threw = cs.threw,
                       !.rejected = cs.rejected,
                       !.call = [detectedPitches |-> detectedPitches,
                                 noteThreshold |-> threshold],
                       !.repeat = (last.call = [detectedPitches |-> detectedPitches,
                                                noteThreshold |-> threshold])]
        /\ UNCHANGED <<otherVars, converterVars, appVars, audioVars>>

TrackerNext ==
    \/ \E outcome \in MidiOutcomes : TrackerInitialize(outcome)
    \/ \E detectedPitches \in SeqsUpTo(TestPitches, MaxPitches),
          threshold \in TestThresholds : Update(detectedPitches, threshold)

TrackerSpec == TrackerInit /\ [][TrackerNext]_vars

\* ------------------------------------------ the note mapping on its own
\* frequencyToMidiNote of the converter and the two functions of utils.js,
\* called with frequencies and notes of the test sets.
NoteExamples ==
    { <<Rat(440, 1), 69>>, <<Rat(26163, 100), 60>>, <<Rat(275, 10), 21>>,
      <<Rat(418601, 100), 108>>, <<Rat(818, 100), 0>>, <<Rat(1254385, 100), 127>>,
      <<Rat(45289, 100), 69>>, <<Rat(4529, 10), 70>>, <<Rat(42747, 100), 68>>,
      <<Rat(42748, 100), 69>>, <<Rat(2321052, 100), 138>>, <<Rat(100000, 1), 163>>,
      <<Rat(1, 1), -36>>, <<Rat(1, 2), -48>>, <<Rat(795, 100), 0>>,
      <<Rat(794, 100), -1>>, <<Rat(1635, 100), 12>>, <<Rat(29400, 1), 142>>,
      <<Rat(11025, 1), 125>>, <<Rat(8820, 1), 121>>, <<Rat(46616, 100), 70>>,
      <<Rat(4153, 10), 68>>, <<Rat(880, 1), 81>>, <<Rat(220, 1), 57>>,
      <<Rat(8241, 100), 40>>, <<Rat(110, 1), 45>>, <<Rat(14683, 100), 50>>,
      <<Rat(196, 1), 55>>, <<Rat(24694, 100), 59>>, <<Rat(32963, 100), 64>>,
      <<Rat(392, 1), 67>> }

TestFrequencies == {e[1] : e \in NoteExamples}

TestNotes == 0 .. 127

MapperInit ==
    /\ Constructed
    /\ midiPc = "requesting"
    /\ onStart = FALSE
    /\ onThresholdChange = FALSE

FrequencyToMidiNote(frequency) ==
    /\ last' = [Op("frequencyToMidiNote") EXCEPT
                   !.arg = frequency, !.result = frequencyToMidiNote(frequency)]
    /\ UNCHANGED <<otherVars, converterVars, appVars, audioVars, trackerVars, sent>>

UtilsFrequencyToMidiNote(frequency) ==
    /\ last' = [Op("utils.frequencyToMidiNote") EXCEPT
                   !.arg = frequency, !.result = utilsFrequencyToMidiNote(frequency)]
    /\ UNCHANGED <<otherVars, converterVars, appVars, audioVars, trackerVars, sent>>

UtilsMidiNoteToFrequency(midiNote) ==
    /\ last' = [Op("utils.midiNoteToFrequency") EXCEPT
                   !.arg = midiNote, !.result = midiNoteToFrequency(midiNote)]
    /\ UNCHANGED <<otherVars, converterVars, appVars, audioVars, trackerVars, sent>>

MapperNext ==
    \/ \E frequency \in TestFrequencies : FrequencyToMidiNote(frequency)
    \/ \E frequency \in TestFrequencies : UtilsFrequencyToMidiNote(frequency)
    \/ \E midiNote \in TestNotes : UtilsMidiNoteToFrequency(midiNote)

MapperSpec == MapperInit /\ [][MapperNext]_vars


\* -------------------------------------------- the estimator on its own
\* A new AudioProcessor whose buffers a test has filled, and the methods
\* detectPitch(this.audioBuffer) and absoluteThreshold() called on it.
\* One cycle of a sine wave of 3, 4 or 6 samples, scaled to integer samples.
SineCycle(period) ==
    CASE period = 3 -> <<0, 1, -1>>
      [] period = 4 -> <<0, 1, 0, -1>>
      [] period = 6 -> <<0, 1, 1, 0, -1, -1>>

SinePeriods == {3, 4, 6}

Sine(period, len) ==
    TypedArray([i \in 0 .. (len - 1) |-> SineCycle(period)[(i % period) + 1]], len)

TestFrames ==
    {Wave(period, BUFFER_SIZE) : period \in Periods}
        \cup {Sine(period, BUFFER_SIZE) : period \in SinePeriods}

\* Values of a normalized difference: two below the threshold, one above, NaN.
NormalizedValues == {Rat(1, 20), Rat(1, 10), Rat(1, 1), NaN}

NormalizedBuffers ==
    {[tau \in Lags |-> IF tau = 0 THEN Rat(1, 1) ELSE d[tau]] :
        d \in [1 .. (YinLength - 1) -> NormalizedValues]}

YinInit ==
    /\ midiPc = "requesting"
    /\ midiAccess = "null"
    /\ midiOutput = "null"
    /\ activeNotes = <<>>
    /\ onsetThreshold = Rat(2, 100)
    /\ noteThreshold = Rat(8, 10)
    /\ onStart = FALSE
    /\ onThresholdChange = FALSE
    /\ audioContext = 0
    /\ pendingMedia = 0
    /\ onPitchDetected = FALSE
    /\ onaudioprocess = FALSE
    /\ \/ /\ audioBuffer \in TestFrames
          /\ yinBuffer = [tau \in Lags |-> Rat(0, 1)]
       \/ /\ audioBuffer = [i \in 0 .. (BUFFER_SIZE - 1) |-> 0]
          /\ yinBuffer \in NormalizedBuffers
    /\ sinkOn = {}
    /\ sent = <<>>
    /\ tracks = [id \in TrackIds |-> NoTrack]
    /\ users = <<>>
    /\ requests = [r \in RequestIds |-> NoRequest]
    /\ last = Op("constructor")

\* this.detectPitch(this.audioBuffer)
DetectPitch ==
    \E yin \in {YinOf(yinBuffer, audioBuffer)} :
        /\ yinBuffer' = yin
        /\ last' = [Op("detectPitch") EXCEPT
                       !.pitch = detectPitch(yinBuffer, audioBuffer),
                       !.tau = absoluteThreshold(yin)]
        /\ UNCHANGED <<otherVars, converterVars, appVars, audioContext, pendingMedia,
                       onPitchDetected, onaudioprocess, audioBuffer, trackerVars, sent>>

\* this.absoluteThreshold()
AbsoluteThreshold ==
    /\ last' = [Op("absoluteThreshold") EXCEPT !.tau = absoluteThreshold(yinBuffer)]
    /\ UNCHANGED <<otherVars, converterVars, appVars, audioVars, trackerVars, sent>>

YinNext == DetectPitch \/ AbsoluteThreshold

YinSpec == YinInit /\ [][YinNext]_vars


\* ------------------------------------------- the mixer (audioEngine.ts)
\* AudioEngine of the multitrack mixer: the Map of tracks, each with its
\* stored volume (0..100) and its mute flag.  The Tone.Player that
\* setTrackVolume creates for an unmuted track is no part of the state.
\* setTrackVolume: the stored volume is overwritten when the track exists.
setTrackVolume(ts, id, volume) ==
    IF ts[id].loaded THEN [ts EXCEPT ![id].volume = volume] ELSE ts

\* toggleMuteTrack: the flag is flipped, then setTrackVolume is called with
\* 0 when the track became muted and with the stored volume otherwise.
toggleMuteTrack(ts, id) ==
    IF ts[id].loaded
    THEN LET flipped == [ts EXCEPT ![id].isMuted = ~ts[id].isMuted]
         IN  IF flipped[id].isMuted
             THEN setTrackVolume(flipped, id, 0)
             ELSE setTrackVolume(flipped, id, flipped[id].volume)
    ELSE ts

\* The value exportAudio gives the gain node of a track.
trackGain(track) == IF track.isMuted THEN Rat(0, 1) ELSE Rat(track.volume, 100)

\* exportAudio: one gain node for every track of the Map.
exportAudio(ts) == {<<id, trackGain(ts[id])>> : id \in {t \in TrackIds : ts[t].loaded}}

MixerInit ==
    /\ Constructed
    /\ midiPc = "requesting"
    /\ onStart = FALSE
    /\ onThresholdChange = FALSE

\* loadAudioFile after its awaits: a new track is stored under the id.
LoadAudioFile(id) ==
    /\ tracks' = [tracks EXCEPT ![id] = [loaded |-> TRUE, volume |-> 100, isMuted |-> FALSE]]
    /\ last' = [Op("loadAudioFile") EXCEPT !.arg = <<id>>]
    /\ UNCHANGED <<pageVars, users, requests>>

SetTrackVolume(id, volume) ==
    /\ tracks' = setTrackVolume(tracks, id, volume)
    /\ last' = [Op("setTrackVolume") EXCEPT !.arg = <<id, volume>>]
    /\ UNCHANGED <<pageVars, users, requests>>

\* The record keeps the track as it was before the call.
ToggleMuteTrack(id) ==
    /\ tracks' = toggleMuteTrack(tracks, id)
    /\ last' = [Op("toggleMuteTrack") EXCEPT !.arg = <<id, tracks[id]>>]
    /\ UNCHANGED <<pageVars, users, requests>>

ExportAudio ==
    /\ last' = [Op("exportAudio") EXCEPT !.result = exportAudio(tracks)]
    /\ UNCHANGED <<pageVars, otherVars>>

MixerNext ==
    \/ \E id \in TrackIds : LoadAudioFile(id)
    \/ \E id \in TrackIds, volume \in Volumes : SetTrackVolume(id, volume)
    \/ \E id \in TrackIds : ToggleMuteTrack(id)
    \/ ExportAudio

MixerSpec == MixerInit /\ [][MixerNext]_vars



\* --------------------------------- the server's registration (part_002)
\* POST /api/register: each request runs the handler, which gives way at its
\* three awaits (bcrypt.hash, findOne, insertOne); handlers of other requests
\* run in between.  users is the collection, one record per inserted
\* document, id standing for the document's ObjectId.
ServerInit ==
    /\ Constructed
    /\ midiPc = "requesting"
    /\ onStart = FALSE
    /\ onThresholdChange = FALSE

\* db.collection('users').findOne({ username }) on the collection as it is.
findOne(username) == \E i \in DOMAIN users : users[i].username = username

\* The request arrives; the handler runs to the await of bcrypt.hash.
Register(r, username) ==
    /\ requests[r].pc = "none"
    /\ requests' = [requests EXCEPT ![r] = [NoRequest EXCEPT
                       !.pc = "hash", !.username = username]]
    /\ last' = [Op("register") EXCEPT !.arg = <<r, username>>]
    /\ UNCHANGED <<pageVars, tracks, users>>

\* The hash is there; the database answers findOne.
FindOne(r) ==
    /\ requests[r].pc = "hash"
    /\ requests' = [requests EXCEPT ![r].pc = "findOne",
                                    ![r].user = findOne(requests[r].username)]
    /\ last' = [Op("findOne") EXCEPT !.arg = <<r, requests[r].username>>]
    /\ UNCHANGED <<pageVars, tracks, users>>

\* The handler resumes with a document: 400, nothing inserted.
UserExists(r) ==
    /\ requests[r].pc = "findOne"
    /\ requests[r].user
    /\ requests' = [requests EXCEPT ![r].pc = "done", ![r].status = 400]
    /\ last' = [Op("userExists") EXCEPT !.arg = <<r, requests[r].username>>]
    /\ UNCHANGED <<pageVars, tracks, users>>

\* The handler resumes with null: insertOne, then 201.
InsertOne(r) ==
    /\ requests[r].pc = "findOne"
    /\ ~requests[r].user
    /\ users' = Append(users, [username |-> requests[r].username, id |-> r])
    /\ requests' = [requests EXCEPT ![r].pc = "done", ![r].status = 201]
    /\ last' = [Op("insertOne") EXCEPT !.arg = <<r, requests[r].username>>]
    /\ UNCHANGED <<pageVars, tracks>>

ServerNext ==
    \/ \E r \in RequestIds, username \in Usernames : Register(r, username)
    \/ \E r \in RequestIds : FindOne(r)
    \/ \E r \in RequestIds : UserExists(r)
    \/ \E r \in RequestIds : InsertOne(r)

ServerSpec == ServerInit /\ [][ServerNext]_vars



\* ------------------------------------------------------------ claims
IsUpdate(l) == l.op = "handleDetectedPitches"

ActiveSet == SeqToSet(activeNotes)

\* The notes of a call's candidates whose confidence met the threshold.
CandidateNotes(call) ==
    SeqToSet(DetectedNotes(call.detectedPitches, call.noteThreshold))

AllAccepted(call) ==
    \A i \in DOMAIN call.detectedPitches :
        RGe(call.detectedPitches[i].probability, call.noteThreshold)

MessagesFor(msgs, n) == {i \in DOMAIN msgs : msgs[i][2] = n}

\* msgs is exactly the diff of the candidate set C against the active set A.
ExactDiff(A, C, msgs) ==
    /\ \A n \in C \ A :
          \E i \in DOMAIN msgs :
              msgs[i] = <<NOTE_ON, n, 100>> /\ MessagesFor(msgs, n) = {i}
    /\ \A n \in A \ C :
          \E i \in DOMAIN msgs :
              msgs[i][1] = NOTE_OFF /\ MessagesFor(msgs, n) = {i}
    /\ \A i \in DOMAIN msgs : msgs[i][2] \in (C \ A) \cup (A \ C)

\* C1 as stated: whatever the active set A and the candidate set C (all
\* candidates at or above the threshold), one update call emits exactly one
\* On with velocity 100 per note of C \ A, one Off per note of A \ C, and
\* nothing else.
C1_Original ==
    [][(IsUpdate(last') /\ AllAccepted(last'.call))
          => ExactDiff(ActiveSet, CandidateNotes(last'.call), sent')]_vars

\* C1, amended: with a MIDI output selected and every candidate a note number
\* in 0..127, one update call emits exactly the diff of C against A (one On
\* with velocity 100 per note of C \ A, one Off per note of A \ C, nothing
\* else); with no output selected the call emits nothing and the set stays
\* empty.
C1_Diff ==
    [][(/\ IsUpdate(last')
        /\ AllAccepted(last'.call)
        /\ CandidateNotes(last'.call) \subseteq 0 .. 127)
          => IF midiOutput = "null"
             THEN sent' = <<>> /\ activeNotes' = <<>>
             ELSE ExactDiff(ActiveSet, CandidateNotes(last'.call), sent')]_vars

\* Scenario B has happened: update({64,67}) on {60,64} sent On(67) and Off(60).
C1_Witness ==
    /\ IsUpdate(last)
    /\ AllAccepted(last.call)
    /\ ActiveSet = {64, 67}
    /\ sent = << <<NOTE_ON, 67, 100>>, <<NOTE_OFF, 60, 0>> >>

\* C2 as stated: after any update call that returns, the active set equals
\* the set of that call's accepted candidate notes.
C2_Original ==
    (IsUpdate(last) /\ ~last.threw) => ActiveSet = CandidateNotes(last.call)

\* C2, amended: after any update call that returns, the active set equals the
\* set of that call's accepted candidate notes when a MIDI output is selected,
\* and is empty when none is.
C2_ActiveIsCandidates ==
    (IsUpdate(last) /\ ~last.threw)
        => ActiveSet = IF midiOutput = "null" THEN {} ELSE CandidateNotes(last.call)

\* An update replaced two active notes by a third one.
C2_Witness ==
    /\ IsUpdate(last)
    /\ ~last.threw
    /\ midiOutput # "null"
    /\ ActiveSet = {67}
    /\ Len(sent) = 3

C6_Alternation ==
    /\ activeNotes = <<>> /\ sinkOn = {}
    /\ [][/\ \A i \in DOMAIN sent' :
                LET n == sent'[i][2]
                IN  /\ MessagesFor(sent', n) = {i}
                    /\ sent'[i][1] = NOTE_ON
                          => n \notin ActiveSet /\ n \notin sinkOn
                             /\ n \in SeqToSet(activeNotes')
                    /\ sent'[i][1] = NOTE_OFF
                          => n \in ActiveSet /\ n \in sinkOn
                             /\ n \notin SeqToSet(activeNotes')
          /\ \A n \in SeqToSet(activeNotes') \ ActiveSet :
                \E i \in DOMAIN sent' : sent'[i] = <<NOTE_ON, n, 100>>
          /\ \A n \in ActiveSet \ SeqToSet(activeNotes') :
                \E i \in DOMAIN sent' : sent'[i] = <<NOTE_OFF, n, 0>>]_vars

\* One call turned a note off (it had been turned on before) and another on.
C6_Witness ==
    /\ \E i \in DOMAIN sent : sent[i][1] = NOTE_OFF
    /\ \E i \in DOMAIN sent : sent[i][1] = NOTE_ON

\* C7 as stated: when an update call ends, normally or by a failed send, the
\* active set holds either none or all of that call's insertions and removals.
C7_Original ==
    [][IsUpdate(last')
          => \/ SeqToSet(activeNotes') = ActiveSet
             \/ SeqToSet(activeNotes') = CandidateNotes(last'.call)]_vars

\* The messages the last operation handed to the sink, accepted or refused.
Handed ==
    SeqToSet(sent) \cup (IF last.rejected = <<>> THEN {} ELSE {last.rejected})

\* C8 as stated: every message handed to the sink has a note number in 0..127
\* and a velocity in 0..127.
C8_Original == \A m \in Handed : m[2] \in 0 .. 127 /\ m[3] \in 0 .. 127

IsFrame(l) == l.op = "processAudio" /\ l.blockLen = BUFFER_SIZE

NoDuplicates(s) == \A i, j \in DOMAIN s : s[i] = s[j] => i = j

\* C4 as stated: after a frame has been processed, every active note is the
\* note detected in that frame with confidence at or above the threshold, and
\* no note occurs twice.
C4_Original ==
    IsFrame(last)
        => /\ NoDuplicates(activeNotes)
           /\ \A n \in ActiveSet :
                 /\ Truthy(last.pitch)
                 /\ RGe(Rat(1, 1), noteThreshold)
                 /\ n = frequencyToMidiNote(last.pitch.value)

\* C5 as stated: when a note is active and the next frame yields no pitch
\* (detectPitch returns null), that frame's processing emits an Off for the
\* note and removes it from the active set.
C5_Original ==
    [][(IsFrame(last') /\ last'.pitch.null)
          => \A n \in ActiveSet :
                /\ \E i \in DOMAIN sent' : sent'[i] = <<NOTE_OFF, n, 0>>
                /\ n \notin SeqToSet(activeNotes')]_vars

\* C9 as stated: a block whose length is not the frame length is rejected: no
\* pitch comes from it, no event is emitted, the active set is unchanged.
C9_Original ==
    [][(last'.op = "processAudio" /\ last'.blockLen # BUFFER_SIZE)
          => /\ ~Truthy(last'.pitch)
             /\ sent' = <<>>
             /\ activeNotes' = activeNotes]_vars

InOpenUnit(x) == RLt(Rat(0, 1), x) /\ RLt(x, Rat(1, 1))

\* C10 as stated: no frame is processed while the note threshold or the
\* detection threshold is outside (0,1), or the sample rate or the frame
\* length is not positive.
C10_Original ==
    (last.op = "processAudio" /\ last.blockLen <= BUFFER_SIZE)
        => /\ InOpenUnit(noteThreshold)
           /\ InOpenUnit(YIN_THRESHOLD)
           /\ SAMPLE_RATE > 0
           /\ BUFFER_SIZE > 0

\* C11: the active set changes only in a step that calls handleDetectedPitches
\* (a frame whose pitch is handed to the pitch callback), and then it is what
\* that call leaves; a threshold change, a Start click, the MIDI
\* initialisation, the settling of getUserMedia and a frame without pitch
\* leave it unchanged.
C11_OnlyUpdate ==
    [][activeNotes' # activeNotes
          => /\ last'.op = "processAudio"
             /\ last'.call # NoCall
             /\ activeNotes' =
                   handleDetectedPitches(CallState, last'.call.detectedPitches,
                                         last'.call.noteThreshold).activeNotes]_vars

\* The note threshold was changed, or a frame without pitch was processed,
\* while a note is active.
C11_Witness ==
    /\ activeNotes # <<>>
    /\ \/ last.op = "updateNoteThreshold"
       \/ IsFrame(last) /\ last.pitch.null

\* C12: every frequency a frame hands to the pitch callback, and so to
\* frequencyToMidiNote (in handleDetectedPitches and in the lookup for the
\* display), is finite and greater than 0; a frame whose estimate is null,
\* NaN, 0, negative or infinite leads to no call.
C12_PositiveFrequency ==
    /\ last.call # NoCall
          => \A i \in DOMAIN last.call.detectedPitches :
                Positive(last.call.detectedPitches[i].freq)
    /\ (last.op = "processAudio" /\ ~Positive(last.pitch.value))
          => last.call = NoCall

\* With the pitch callback registered, one frame gave a NaN estimate (the lag
\* found was the last of the buffer) and was dropped.
C12_Witness ==
    /\ IsFrame(last)
    /\ onPitchDetected
    /\ ~last.pitch.null
    /\ IsNaN(last.pitch.value)
    /\ last.call = NoCall

Silent(buffer) == \A i \in DOMAIN buffer : buffer[i] = 0

\* C13: a frame of zeros (the running sum is 0 at every lag) gives no pitch:
\* detectPitch returns null, nothing is thrown, the pitch callback is not
\* invoked and no message is sent.
C13_Silence ==
    [][(IsFrame(last') /\ Silent(audioBuffer'))
          => /\ last'.pitch.null
             /\ last'.tau = -1
             /\ ~last'.threw
             /\ last'.call = NoCall
             /\ sent' = <<>>
             /\ \A tau \in Lags \ {0} : IsNaN(yinBuffer'[tau])]_vars

\* With the pitch callback registered, a frame of zeros was processed after a
\* frame that had a pitch.
C13_Witness ==
    /\ IsFrame(last)
    /\ Silent(audioBuffer)
    /\ onPitchDetected
    /\ activeNotes # <<>>

\* round(69 + 12 * log2(f / 440)) of a test frequency, computed beforehand.
ExpectedNote(f) == (CHOOSE e \in NoteExamples : e[1] = f)[2]

\* C14: frequencyToMidiNote(f) is round(69 + 12 * log2(f / 440)) for the test
\* frequencies, 440 Hz giving 69 and 261.63 Hz giving 60, and the copy of the
\* converter and the copy of utils.js return the same note.
C14_MappingExact ==
    last.op \in {"frequencyToMidiNote", "utils.frequencyToMidiNote"}
        => /\ last.result = ExpectedNote(last.arg)
           /\ frequencyToMidiNote(last.arg) = utilsFrequencyToMidiNote(last.arg)
           /\ frequencyToMidiNote(Rat(440, 1)) = 69
           /\ frequencyToMidiNote(Rat(26163, 100)) = 60

\* The copy of utils.js mapped a frequency just above a rounding edge.
C14_Witness ==
    /\ last.op = "utils.frequencyToMidiNote"
    /\ last.arg = Rat(4529, 10)
    /\ last.result = 70

\* C15: for every note n of 21..108, frequencyToMidiNote of utils.js maps
\* midiNoteToFrequency(n) back to n.
C15_RoundTrip ==
    (last.op = "utils.midiNoteToFrequency" /\ last.arg \in 21 .. 108)
        => utilsFrequencyToMidiNote(last.result) = last.arg

\* midiNoteToFrequency was applied to the lowest note of the range.
C15_Witness ==
    /\ last.op = "utils.midiNoteToFrequency"
    /\ last.arg = 21
    /\ last.result = Rat(55, 2)

\* The lags whose normalized difference is below the threshold.
Below(yin) == {tau \in 1 .. (YinLength - 1) : RLt(yin[tau], YIN_THRESHOLD)}

Least(S) == CHOOSE x \in S : \A y \in S : x <= y

\* Where advancing from lag first stops: every step up to it went to a
\* strictly smaller value, and the next value is missing or not smaller.
Bottom(yin, first) ==
    CHOOSE t \in first .. (YinLength - 1) :
        /\ \A k \in first .. (t - 1) : RLt(yin[k + 1], yin[k])
        /\ (t + 1 < YinLength) => ~RLt(yin[t + 1], yin[t])

\* C17: absoluteThreshold returns -1 exactly when no lag of 1..N/2-1 has a
\* value below the threshold, and otherwise the lag reached from the first
\* such lag by advancing while the next value exists and is strictly smaller.
C17_ThresholdSearch ==
    last.op = "absoluteThreshold"
        => /\ (last.tau = -1) <=> (Below(yinBuffer) = {})
           /\ Below(yinBuffer) # {}
                 => last.tau = Bottom(yinBuffer, Least(Below(yinBuffer)))

\* The search passed a lag above the threshold, found one below it and walked
\* down one step to a lag followed by an equal value.
C17_Witness ==
    /\ last.op = "absoluteThreshold"
    /\ Least(Below(yinBuffer) \cup {YinLength}) = 2
    /\ last.tau = 3
    /\ yinBuffer[4] = yinBuffer[3]

\* |value - f| <= f / 100 for a finite value and f > 0.
WithinOnePercent(value, f) ==
    /\ value.d > 0
    /\ ~RLt(Rat(f.n, 100 * f.d), RSub(value, f))
    /\ ~RLt(Rat(f.n, 100 * f.d), RSub(f, value))

\* C16 as stated: for a frame that holds a sine wave of period P samples, with
\* P no longer than half the frame, detectPitch returns a frequency within
\* 1% of SAMPLE_RATE / P.
C16_Original ==
    \A period \in SinePeriods :
        (/\ last.op = "detectPitch"
         /\ audioBuffer = Sine(period, BUFFER_SIZE)
         /\ 2 * period <= BUFFER_SIZE)
            => /\ ~last.pitch.null
               /\ WithinOnePercent(last.pitch.value, Rat(SAMPLE_RATE, period))

\* C18 as stated: when the lag found by the threshold search is the first or
\* the last lag of the valid range 1..N/2-1, the interpolation is skipped and
\* detectPitch returns exactly SAMPLE_RATE / tau.
C18_Original ==
    (/\ last.op \in {"processAudio", "detectPitch"}
     /\ ~last.threw
     /\ last.tau \in {1, YinLength - 1})
        => last.pitch = [null |-> FALSE, value |-> Rat(SAMPLE_RATE, last.tau)]

\* The yinBuffer of an AudioProcessor that has analysed nothing yet.
NewYinBuffer == [tau \in Lags |-> Rat(0, 1)]

\* C19: whatever frames were analysed before, detectPitch returns for the
\* buffer it analyses what a new AudioProcessor returns for it, and leaves the
\* yinBuffer that one leaves.
C19_NoHistory ==
    [][(last'.op = "processAudio" /\ last'.blockLen <= BUFFER_SIZE)
          => /\ last'.pitch = detectPitch(NewYinBuffer, audioBuffer')
             /\ yinBuffer' = YinOf(NewYinBuffer, audioBuffer')]_vars

\* A frame with a pitch was analysed after a frame with another pitch: the
\* second frame turned one note on and the note of the first frame off.
C19_Witness ==
    /\ IsFrame(last)
    /\ Truthy(last.pitch)
    /\ Len(sent) = 2
    /\ sent[1][1] = NOTE_ON
    /\ sent[2][1] = NOTE_OFF

\* C20 as stated: the frequency detectPitch returns for a frame is the sample
\* rate of the AudioContext that delivered the samples divided by the refined
\* lag.
C20_Original ==
    (IsFrame(last) /\ Truthy(last.pitch))
        => last.pitch.value =
              RDiv(Rat(audioContext, 1), parabolicInterpolation(yinBuffer, last.tau))

\* C21 as stated: the active set never holds more than one note, and it holds
\* none after a frame processed with a note threshold above 1.0.
C21_Original ==
    /\ Cardinality(ActiveSet) <= 1
    /\ (IsFrame(last) /\ RLt(Rat(1, 1), noteThreshold)) => activeNotes = <<>>

\* C22: in every reachable state the active set is the set of notes whose
\* last message delivered to the MIDI output is a Note On; while no output is
\* selected nothing is sent and the active set is empty.
C22_SinkConsistent ==
    /\ ActiveSet = sinkOn
    /\ midiOutput = "null" => (sent = <<>> /\ activeNotes = <<>> /\ sinkOn = {})

\* With an output selected, a frame whose note the output refused left the
\* note of an earlier frame active, in the tracker and at the sink.
C22_Witness ==
    /\ midiOutput # "null"
    /\ IsFrame(last)
    /\ last.threw
    /\ activeNotes # <<>>
    /\ ActiveSet = sinkOn

\* C23: among the messages of one handleDetectedPitches call every Note On
\* comes before every Note Off, so a note that replaces another is turned on
\* while the other still sounds.
C23_OnBeforeOff ==
    [][IsUpdate(last')
          => \A i, j \in DOMAIN sent' :
                (sent'[i][1] = NOTE_ON /\ sent'[j][1] = NOTE_OFF)
                    => /\ i < j
                       /\ sent'[j][2] \in sinkOn
                       /\ sent'[i][2] \notin sinkOn]_vars

\* One call turned two notes on and then the note they replace off.
C23_Witness ==
    /\ IsUpdate(last)
    /\ Len(sent) = 3
    /\ sent[1][1] = NOTE_ON
    /\ sent[2][1] = NOTE_ON
    /\ sent[3][1] = NOTE_OFF

\* C24: while MIDIConverter.initialize has not settled, the start callback is
\* not registered, a Start click changes nothing, no AudioContext exists, no
\* frame has been analysed and no pitch has been handed to the converter.
C24_NothingBeforeMidi ==
    midiPc = "requesting"
        => /\ ~onStart
           /\ audioContext = 0
           /\ pendingMedia = 0
           /\ ~onPitchDetected
           /\ ~onaudioprocess
           /\ activeNotes = <<>>
           /\ last.op \notin {"processAudio", "getUserMedia"}
           /\ last.pitch = NoPitch
           /\ last.call = NoCall

\* The Start button was clicked while MIDI access was still being requested.
C24_Witness ==
    /\ midiPc = "requesting"
    /\ last.op = "start"

\* C25: when toggleMuteTrack is called twice in a row on a loaded, unmuted
\* track of stored volume v, the track is afterwards unmuted with stored
\* volume v, and an export gives it the gain v/100.
C25_Original ==
    [][(/\ last.op = "toggleMuteTrack"
        /\ last'.op = "toggleMuteTrack"
        /\ last'.arg[1] = last.arg[1]
        /\ last.arg[2].loaded
        /\ ~last.arg[2].isMuted)
          => /\ ~tracks'[last.arg[1]].isMuted
             /\ tracks'[last.arg[1]].volume = last.arg[2].volume
             /\ <<last.arg[1], Rat(last.arg[2].volume, 100)>> \in exportAudio(tracks')]_vars

\* C26: the users collection never holds two records with the same username,
\* and only the requests answered 201 have inserted a record.
C26_Original ==
    /\ \A i, j \in DOMAIN users : users[i].username = users[j].username => i = j
    /\ Len(users) = Cardinality({r \in RequestIds : requests[r].status = 201})
    /\ \A r \in RequestIds :
          requests[r].status = 400 => \A i \in DOMAIN users : users[i].id # r

\* The denominator 2 * y2 - y1 - y3 that parabolicInterpolation forms at tau.
Denominator(yin, tau) ==
    RSub(RSub(RMul(Rat(2, 1), YinAt(yin, tau)), YinAt(yin, tau - 1)),
         YinAt(yin, tau + 1))

\* C27 as stated: after a frame was analysed the lag found is -1 or lies in
\* 2..N/2-1, and in the second case the left neighbour is an element of the
\* yinBuffer and the denominator 2 * y2 - y1 - y3 is strictly negative.
C27_Original ==
    (last.op \in {"processAudio", "detectPitch"} /\ ~last.threw)
        => \/ last.tau = -1
           \/ /\ last.tau \in 2 .. (YinLength - 1)
              /\ (last.tau - 1) \in DOMAIN yinBuffer
              /\ RLt(Denominator(yinBuffer, last.tau), Rat(0, 1))

====
